---- MODULE Spec2Model ----
(***************************************************************************)
(* ChromaDocStore (app/backend/vector_store/chroma_store.py): a document   *)
(* store that wraps one ChromaDB collection.  The state is the collection  *)
(* held by the engine; every public method is one action.  The engine      *)
(* primitives self.collection.add/query/get/delete/update are modelled by  *)
(* the Collection* operators with the behaviour of chromadb's Collection   *)
(* API (the library the module imports), at the lines where the store      *)
(* calls them.                                                             *)
(***************************************************************************)
EXTENDS Integers, Sequences, FiniteSets, TLC

\* ---------------------------------------------------------------- bounds
MaxSize == 2        \* the collection holds at most MaxSize documents
MaxResults == 3     \* largest n_results passed to similarity_search
SearchSize == 3     \* largest collection that SpecSearch starts from

\* ---------------------------------------------------------------- values
\* Document and query texts.
Texts == {1, 2}

\* The values datetime.utcnow() can read: two calls may read the same value.
Clock == {0, 1}

\* Lengths of the lists passed to add_documents and delete_documents.
BatchLengths == {0, 1, 2}

\* Optional[T]: None, or a value wrapped in a one-element sequence.
None == <<>>
Some(x) == <<x>>

\* A generator that forgets the position: every id of a call is the same
\* when the clock does not move.
GenId_NoIndex(i, ts) == <<"doc", 0, ts>>

\* f"doc_{i}_{datetime.utcnow().timestamp()}": the string is determined by,
\* and determines, the pair (i, timestamp).
GenId(i, ts) == <<"doc", i, ts>>

\* Every id the model can name: the ids the generator can produce.
AllIds == {<<"doc", i, ts>> : i \in {n - 1 : n \in BatchLengths \ {0}}, ts \in Clock}

\* Ids a caller passes explicitly to add_documents: ids that an earlier call
\* returned.
CallerIds == {<<"doc", 0, 0>>, <<"doc", 1, 1>>}

\* {"timestamp": datetime.utcnow().isoformat()}: one key; the value is an
\* ISO time string that neither the store nor the engine operations used
\* here ever read, so it is kept as one token.
DefaultAddMetadata == ("timestamp" :> "isotime")

\* {"updated_at": datetime.utcnow().isoformat()}
DefaultUpdateMetadata == ("updated_at" :> "isotime")

\* Metadata mappings a caller passes explicitly.
CallerMetadatas == {("src" :> 1)}

\* metadata_filter values: None or an equality filter on one key.
Filters == {None, Some(("src" :> 1))}

Range(s) == {s[i] : i \in DOMAIN s}

Lists(S) == UNION {[1..k -> S] : k \in BatchLengths}

NoDuplicates(s) == \A i, j \in DOMAIN s : i # j => s[i] # s[j]

Min(a, b) == IF a < b THEN a ELSE b

\* ---------------------------------------------------------------- engine
\* The embedding function of the collection (a pure function of the text)
\* and the distance the index orders by (squared L2).
Embed(t) == <<t % 2, t \div 2>>

Distance(q, t) ==
    LET u == Embed(q)
        v == Embed(t)
    IN (u[1] - v[1]) * (u[1] - v[1]) + (u[2] - v[2]) * (u[2] - v[2])

EmptyCollection == [id \in {} |-> 0]

\* where=metadata_filter: every key of the filter is present with that value.
Matches(metadata, where) ==
    \/ where = None
    \/ \A k \in DOMAIN where[1] :
          k \in DOMAIN metadata /\ metadata[k] = where[1][k]

\* An insert without the length check: it writes the positions that all
\* three lists have.
CollectionAdd_Truncating(coll, documents, metadatas, ids, fails) ==
    LET n == Min(Len(ids), Min(Len(documents), Len(metadatas)))
        short == SubSeq(ids, 1, n)
    IN IF n = 0 THEN [ok |-> FALSE, error |-> "ValueError", coll |-> coll]
       ELSE IF ~NoDuplicates(short)
       THEN [ok |-> FALSE, error |-> "DuplicateIDError", coll |-> coll]
       ELSE IF fails THEN [ok |-> FALSE, error |-> "EngineError", coll |-> coll]
       ELSE [ok |-> TRUE, error |-> "none",
             coll |-> [id \in DOMAIN coll \cup Range(short) |->
                         IF id \in DOMAIN coll THEN coll[id]
                         ELSE LET i == CHOOSE j \in 1..n : ids[j] = id
                              IN [document |-> documents[i],
                                  metadata |-> metadatas[i]]]]

\* The record set that collection.add accepts: ids non-empty and distinct,
\* documents and metadatas as long as ids.
RecordSetValid(documents, metadatas, ids) ==
    /\ Len(ids) > 0
    /\ NoDuplicates(ids)
    /\ Len(metadatas) = Len(ids)
    /\ Len(documents) = Len(ids)

\* self.collection.add(documents=, metadatas=, ids=): the record set is
\* validated first (non-empty ids, no duplicate id, equal lengths); then the
\* whole batch is written, and a record whose id is already in the
\* collection is skipped.  A rejected call writes nothing.
CollectionAdd(coll, documents, metadatas, ids, fails) ==
    IF Len(ids) = 0 THEN [ok |-> FALSE, error |-> "ValueError", coll |-> coll]
    ELSE IF ~NoDuplicates(ids)
    THEN [ok |-> FALSE, error |-> "DuplicateIDError", coll |-> coll]
    ELSE IF Len(metadatas) # Len(ids) \/ Len(documents) # Len(ids)
    THEN [ok |-> FALSE, error |-> "ValueError", coll |-> coll]
    ELSE IF fails THEN [ok |-> FALSE, error |-> "EngineError", coll |-> coll]
    ELSE [ok |-> TRUE, error |-> "none",
          coll |-> [id \in DOMAIN coll \cup Range(ids) |->
                      IF id \in DOMAIN coll THEN coll[id]
                      ELSE LET i == CHOOSE j \in DOMAIN ids : ids[j] = id
                           IN [document |-> documents[i],
                               metadata |-> metadatas[i]]]]

\* self.collection.query(query_texts=[query], n_results=, where=): the
\* matching documents nearest to the query, nearest first, at most n of
\* them; documents at equal distance come in the index's own order, so every
\* such order is a possible response.  One outer list per query text.
CollectionQuery(coll, query, n, where, fails) ==
    IF fails THEN {[ok |-> FALSE, error |-> "EngineError"]}
    ELSE
      LET cand == {id \in DOMAIN coll : Matches(coll[id].metadata, where)}
          k == Min(n, Cardinality(cand))
          d(id) == Distance(query, coll[id].document)
          orders == {s \in [1..k -> cand] :
                       /\ NoDuplicates(s)
                       /\ \A i \in 1..k : i > 1 => d(s[i-1]) <= d(s[i])
                       /\ \A c \in cand \ Range(s) :
                            \A i \in 1..k : d(s[i]) <= d(c)}
      IN {[ok |-> TRUE, error |-> "none",
           results |->
             [ids |-> <<s>>,
              documents |-> <<[i \in 1..k |-> coll[s[i]].document]>>,
              metadatas |-> <<[i \in 1..k |-> coll[s[i]].metadata]>>,
              distances |-> <<[i \in 1..k |-> d(s[i])]>>]] : s \in orders}

\* self.collection.get(ids=[doc_id]): the records among ids that exist.
CollectionGet(coll, ids, fails) ==
    IF fails THEN [ok |-> FALSE, error |-> "EngineError"]
    ELSE LET found == SelectSeq(ids, LAMBDA x : x \in DOMAIN coll)
         IN [ok |-> TRUE, error |-> "none",
             result |->
               [ids |-> found,
                documents |-> [i \in 1..Len(found) |-> coll[found[i]].document],
                metadatas |-> [i \in 1..Len(found) |-> coll[found[i]].metadata]]]

\* A delete that removes the first id of the list only.
CollectionDelete_FirstOnly(coll, ids, fails) ==
    IF fails THEN [ok |-> FALSE, error |-> "EngineError", coll |-> coll]
    ELSE [ok |-> TRUE, error |-> "none",
          coll |-> [id \in DOMAIN coll \ {ids[1]} |-> coll[id]]]

\* A delete that refuses a list naming an id that is not in the collection.
CollectionDelete_Strict(coll, ids, fails) ==
    IF fails \/ ~(Range(ids) \subseteq DOMAIN coll)
    THEN [ok |-> FALSE, error |-> "EngineError", coll |-> coll]
    ELSE [ok |-> TRUE, error |-> "none",
          coll |-> [id \in DOMAIN coll \ Range(ids) |-> coll[id]]]

\* self.collection.delete(ids=ids): the records with these ids are removed;
\* an id that is not in the collection is skipped.
CollectionDelete(coll, ids, fails) ==
    IF fails THEN [ok |-> FALSE, error |-> "EngineError", coll |-> coll]
    ELSE [ok |-> TRUE, error |-> "none",
          coll |-> [id \in DOMAIN coll \ Range(ids) |-> coll[id]]]

\* self.collection.update(ids=, documents=, metadatas=): for an id in the
\* collection the document is replaced and the given metadata keys are
\* written over the stored mapping (keys not given are kept); an id that is
\* not in the collection is skipped.
CollectionUpdate(coll, ids, documents, metadatas, fails) ==
    IF fails THEN [ok |-> FALSE, error |-> "EngineError", coll |-> coll]
    ELSE [ok |-> TRUE, error |-> "none",
          coll |-> [id \in DOMAIN coll |->
                      IF id \in Range(ids)
                      THEN LET i == CHOOSE j \in DOMAIN ids : ids[j] = id
                           IN [document |-> documents[i],
                               metadata |-> metadatas[i] @@ coll[id].metadata]
                      ELSE coll[id]]]

\* ---------------------------------------------------------------- store
\* @error_tracker.handle_exception() and @performance_monitor
\* .log_execution_time wrap every method; they record the call and hand its
\* result or its exception on unchanged.
handle_exception(res) == res

\* `if ids is None`: one generated id per document, reading the clock for
\* each.
ResolvedIds(documents, ids, idClock) ==
    IF ids = None
    THEN [i \in 1..Len(documents) |-> GenId(i - 1, idClock[i])]
    ELSE ids[1]

\* `if metadatas is None`: one default mapping per document.
ResolvedMetadatas(documents, metadatas) ==
    IF metadatas = None
    THEN [i \in 1..Len(documents) |-> DefaultAddMetadata]
    ELSE metadatas[1]

\* An add_documents that logs the exception and returns the ids anyway.
add_documents_Swallow(coll, documents, metadatas, ids, idClock, fails) ==
    LET rids == ResolvedIds(documents, ids, idClock)
        rmetas == ResolvedMetadatas(documents, metadatas)
        r == CollectionAdd(coll, documents, rmetas, rids, fails)
    IN [outcome |-> "return", error |-> "none", ret |-> rids,
        coll |-> r.coll, engineCalls |-> 1]

\* add_documents: ids and metadatas default per element, one engine insert,
\* the resolved ids returned; any exception is logged and re-raised.
add_documents(coll, documents, metadatas, ids, idClock, fails) ==
    LET rids == ResolvedIds(documents, ids, idClock)
        rmetas == ResolvedMetadatas(documents, metadatas)
        r == CollectionAdd(coll, documents, rmetas, rids, fails)
    IN IF r.ok
       THEN [outcome |-> "return", error |-> "none", ret |-> rids,
             coll |-> r.coll, engineCalls |-> 1]
       ELSE [outcome |-> "raise", error |-> r.error, ret |-> None,
             coll |-> r.coll, engineCalls |-> 1]

\* A formatting loop that reads the document of every entry at position 0.
FormatResults_Misaligned(results) ==
    [i \in 1..Len(results.ids[1]) |->
       [id |-> results.ids[1][i],
        document |-> results.documents[1][1],
        metadata |-> results.metadatas[1][i],
        distance |-> IF "distances" \in DOMAIN results
                     THEN Some(results.distances[1][i]) ELSE None]]

\* The formatting loop of similarity_search: one entry per position of the
\* engine's first (only) result list, in the engine's order.
FormatResults(results) ==
    [i \in 1..Len(results.ids[1]) |->
       [id |-> results.ids[1][i],
        document |-> results.documents[1][i],
        metadata |-> results.metadatas[1][i],
        distance |-> IF "distances" \in DOMAIN results
                     THEN Some(results.distances[1][i]) ELSE None]]

\* A similarity_search that indexes the first hit before formatting, and so
\* raises IndexError when the engine found nothing.
similarity_search_RaisesOnEmpty(coll, resp) ==
    IF resp.ok /\ Len(resp.results.ids[1]) > 0
    THEN [outcome |-> "return", error |-> "none",
          ret |-> [i \in 1..Len(resp.results.ids[1]) |->
                     [id |-> resp.results.ids[1][i],
                      document |-> resp.results.documents[1][i],
                      metadata |-> resp.results.metadatas[1][i],
                      distance |-> Some(resp.results.distances[1][i])]],
          coll |-> coll, engineCalls |-> 1]
    ELSE [outcome |-> "raise",
          error |-> IF resp.ok THEN "IndexError" ELSE resp.error,
          ret |-> None, coll |-> coll, engineCalls |-> 1]

\* similarity_search, given the engine's response to its one query.
similarity_search(coll, resp) ==
    IF resp.ok
    THEN [outcome |-> "return", error |-> "none",
          ret |-> FormatResults(resp.results), coll |-> coll, engineCalls |-> 1]
    ELSE [outcome |-> "raise", error |-> resp.error, ret |-> None,
          coll |-> coll, engineCalls |-> 1]

\* delete_documents: one engine delete; returns None.
delete_documents(coll, ids, fails) ==
    LET r == CollectionDelete(coll, ids, fails)
    IN [outcome |-> IF r.ok THEN "return" ELSE "raise", error |-> r.error,
        ret |-> None, coll |-> r.coll, engineCalls |-> 1]

\* A get_document without the `if result['ids']` test: it indexes the first
\* record and raises IndexError when there is none.
get_document_NoCheck(coll, doc_id, fails) ==
    LET r == CollectionGet(coll, <<doc_id>>, fails)
    IN IF r.ok /\ Len(r.result.ids) > 0
       THEN [outcome |-> "return", error |-> "none",
             ret |-> Some([id |-> r.result.ids[1],
                           document |-> r.result.documents[1],
                           metadata |-> r.result.metadatas[1]]),
             coll |-> coll, engineCalls |-> 1]
       ELSE [outcome |-> "raise",
             error |-> IF r.ok THEN "IndexError" ELSE r.error,
             ret |-> None, coll |-> coll, engineCalls |-> 1]

\* get_document: one engine lookup; the first record found, or None.
get_document(coll, doc_id, fails) ==
    LET r == CollectionGet(coll, <<doc_id>>, fails)
    IN IF ~r.ok
       THEN [outcome |-> "raise", error |-> r.error, ret |-> None,
             coll |-> coll, engineCalls |-> 1]
       ELSE IF Len(r.result.ids) > 0
       THEN [outcome |-> "return", error |-> "none",
             ret |-> Some([id |-> r.result.ids[1],
                           document |-> r.result.documents[1],
                           metadata |-> r.result.metadatas[1]]),
             coll |-> coll, engineCalls |-> 1]
       ELSE [outcome |-> "return", error |-> "none", ret |-> None,
             coll |-> coll, engineCalls |-> 1]

\* update_document: metadata defaults to the update timestamp alone; one
\* engine update; returns None.
update_document(coll, doc_id, document, metadata, fails) ==
    LET rmeta == IF metadata = None THEN DefaultUpdateMetadata ELSE metadata[1]
        r == CollectionUpdate(coll, <<doc_id>>, <<document>>, <<rmeta>>, fails)
    IN [outcome |-> IF r.ok THEN "return" ELSE "raise", error |-> r.error,
        ret |-> None, coll |-> r.coll, engineCalls |-> 1]

VARIABLES collection, call

vars == <<collection, call>>

\* The record of a call: its operation and arguments, what it returned or
\* raised, how often it called the engine, and the collection it started
\* from.
Call(op, args, res, before) ==
    LET out == handle_exception(res)
    IN [op |-> op, args |-> args, outcome |-> out.outcome, error |-> out.error,
        ret |-> out.ret, engineCalls |-> out.engineCalls, before |-> before]

\* No call in progress: the caller has taken the last result.
Idle ==
    [op |-> "idle", args |-> <<>>, outcome |-> "return", error |-> "none",
     ret |-> None, engineCalls |-> 0, before |-> EmptyCollection]

\* __init__: get_or_create_collection on a fresh persist directory.
Init ==
    /\ collection = EmptyCollection
    /\ call = Idle

\* The utcnow() readings of one list comprehension, in order.
Readings(n) == {c \in [1..n -> Clock] : \A i \in 1..n : i > 1 => c[i-1] <= c[i]}

\* The engine's storage can fail (fails) only on an insert that passed its
\* validation: a rejected record set never reaches the storage.
AddDocuments ==
    /\ call = Idle
    /\ \E documents \in Lists(Texts),
          metadatas \in {None} \cup {Some(m) : m \in Lists(CallerMetadatas)},
          ids \in {None} \cup {Some(s) : s \in Lists(CallerIds)},
          fails \in BOOLEAN :
         \E idClock \in (IF ids = None THEN Readings(Len(documents)) ELSE {<<>>}) :
           LET res == add_documents(collection, documents, metadatas, ids,
                                    idClock, fails)
           IN /\ Cardinality(DOMAIN res.coll) <= MaxSize
              /\ fails => RecordSetValid(documents,
                                         ResolvedMetadatas(documents, metadatas),
                                         ResolvedIds(documents, ids, idClock))
              /\ collection' = res.coll
              /\ call' = Call("add",
                              [documents |-> documents, metadatas |-> metadatas,
                               ids |-> ids, fails |-> fails],
                              res, collection)

SimilaritySearch ==
    /\ call = Idle
    /\ \E query \in Texts, n_results \in 1..MaxResults,
          metadata_filter \in Filters, fails \in BOOLEAN :
         \E resp \in CollectionQuery(collection, query, n_results,
                                     metadata_filter, fails) :
           LET res == similarity_search(collection, resp)
           IN /\ collection' = res.coll
              /\ call' = Call("search",
                              [query |-> query, n_results |-> n_results,
                               metadata_filter |-> metadata_filter,
                               fails |-> fails],
                              res, collection)

\* delete_documents is given a non-empty list of distinct ids.
DeleteDocuments ==
    /\ call = Idle
    /\ \E ids \in {s \in Lists(AllIds) : Len(s) > 0 /\ NoDuplicates(s)},
          fails \in BOOLEAN :
         LET res == delete_documents(collection, ids, fails)
         IN /\ collection' = res.coll
            /\ call' = Call("delete", [ids |-> ids, fails |-> fails],
                            res, collection)

GetDocument ==
    /\ call = Idle
    /\ \E doc_id \in AllIds, fails \in BOOLEAN :
         LET res == get_document(collection, doc_id, fails)
         IN /\ collection' = res.coll
            /\ call' = Call("get", [doc_id |-> doc_id, fails |-> fails],
                            res, collection)

UpdateDocument ==
    /\ call = Idle
    /\ \E doc_id \in AllIds, document \in Texts,
          metadata \in {None} \cup {Some(m) : m \in CallerMetadatas},
          fails \in BOOLEAN :
         LET res == update_document(collection, doc_id, document, metadata, fails)
         IN /\ collection' = res.coll
            /\ call' = Call("update",
                            [doc_id |-> doc_id, document |-> document,
                             metadata |-> metadata, fails |-> fails],
                            res, collection)

\* The caller takes the result of the call; the store is idle again.
Return ==
    /\ call # Idle
    /\ call' = Idle
    /\ UNCHANGED collection

Next ==
    \/ AddDocuments
    \/ SimilaritySearch
    \/ DeleteDocuments
    \/ GetDocument
    \/ UpdateDocument
    \/ Return

Spec == Init /\ [][Next]_vars

\* Collections of up to SearchSize documents as add_documents leaves them:
\* any text under any id, with the default or a caller's metadata.
StoredDocuments ==
    [document : Texts, metadata : {DefaultAddMetadata} \cup CallerMetadatas]

StoredCollections ==
    UNION {[S -> StoredDocuments] :
             S \in {T \in SUBSET AllIds : Cardinality(T) <= SearchSize}}

InitSearch ==
    /\ collection \in StoredCollections
    /\ call = Idle

NextSearch ==
    \/ SimilaritySearch
    \/ Return

\* similarity_search applied to every stored collection.
SpecSearch == InitSearch /\ [][NextSearch]_vars

\* ---------------------------------------------------------------- claims
Get(coll, id) == get_document(coll, id, FALSE).ret

LengthMismatch(args) ==
    \/ args.metadatas # None /\ Len(args.metadatas[1]) # Len(args.documents)
    \/ args.ids # None /\ Len(args.ids[1]) # Len(args.documents)

ValidationErrors == {"ValueError", "DuplicateIDError"}

C2_GeneratedIds ==
    (/\ call.op = "add"
     /\ call.args.ids = None
     /\ Len(call.args.documents) > 0
     /\ call.args.metadatas # None
           => Len(call.args.metadatas[1]) = Len(call.args.documents)
     /\ ~call.args.fails) =>
       /\ call.outcome = "return"
       /\ Len(call.ret) = Len(call.args.documents)
       /\ NoDuplicates(call.ret)
       /\ \A i \in 1..Len(call.ret) :
            /\ call.ret[i][2] = i - 1
            /\ call.ret[i] \notin DOMAIN call.before
                 => collection[call.ret[i]].document = call.args.documents[i]

C2_Witness ==
    /\ call.op = "add"
    /\ call.args.ids = None
    /\ call.outcome = "return"
    /\ Len(call.ret) = 2
    /\ call.ret[1][3] = call.ret[2][3]
    /\ call.args.documents[1] # call.args.documents[2]

\* C3: after an add with explicit ids returns, get of each id gives the text
\* and the metadata added at that position (the default metadata when
\* metadatas was omitted).
C3_GetAfterAdd ==
    (call.op = "add" /\ call.outcome = "return" /\ call.args.ids # None) =>
       \A i \in 1..Len(call.args.ids[1]) :
          Get(collection, call.args.ids[1][i]) =
             Some([id |-> call.args.ids[1][i],
                   document |-> call.args.documents[i],
                   metadata |-> IF call.args.metadatas = None
                                THEN DefaultAddMetadata
                                ELSE call.args.metadatas[1][i]])

\* C4: after update(id, new_text) of an existing id with metadata omitted,
\* get(id) gives new_text and a metadata mapping holding the update
\* timestamp and nothing else.
C4_UpdateReplacesMetadata ==
    (/\ call.op = "update"
     /\ call.outcome = "return"
     /\ call.args.metadata = None
     /\ call.args.doc_id \in DOMAIN call.before) =>
       Get(collection, call.args.doc_id) =
          Some([id |-> call.args.doc_id,
                document |-> call.args.document,
                metadata |-> DefaultUpdateMetadata])

\* The call supplies the id: an add that returned it, or an update of it.
Supplies(c, id) ==
    \/ c.op = "add" /\ c.outcome = "return" /\ id \in Range(c.ret)
    \/ c.op = "update" /\ c.args.doc_id = id

\* C5: when a delete returns, get of each deleted id gives None; a get of an
\* id that is not in the collection gives None; and an id that was not in
\* the collection before a call is in it afterwards only if the call is an
\* add or an update supplying that id (between calls the collection does not
\* change).
C5_DeletedStaysAbsent ==
    /\ (call.op = "delete" /\ call.outcome = "return") =>
          \A id \in Range(call.args.ids) : Get(collection, id) = None
    /\ (call.op = "get" /\ call.outcome = "return"
          /\ call.args.doc_id \notin DOMAIN call.before) => call.ret = None
    /\ call.op # "idle" =>
          \A id \in DOMAIN collection \ DOMAIN call.before : Supplies(call, id)

C5_Witness ==
    /\ call.op = "delete"
    /\ call.outcome = "return"
    /\ \E id \in Range(call.args.ids) :
          id \in DOMAIN call.before /\ Get(collection, id) = None

\* C6: get of an id that is not in the collection returns None; get raises
\* only when the engine lookup fails; either way the collection is
\* unchanged.
C6_GetMissing ==
    call.op = "get" =>
       /\ (call.args.doc_id \notin DOMAIN call.before /\ ~call.args.fails) =>
             (call.outcome = "return" /\ call.ret = None)
       /\ call.outcome = "raise" => call.args.fails
       /\ collection = call.before

C6_Witness ==
    /\ call.op = "get"
    /\ DOMAIN call.before # {}
    /\ call.args.doc_id \notin DOMAIN call.before
    /\ call.outcome = "return"
    /\ call.ret = None

\* C7: the entries similarity_search returns are in non-decreasing distance,
\* and each carries the id, text, metadata and distance to the query of a
\* document of the collection.
C7_SearchOrdered ==
    (call.op = "search" /\ call.outcome = "return") =>
       /\ \A i \in 1..Len(call.ret) :
            i > 1 => call.ret[i-1].distance[1] <= call.ret[i].distance[1]
       /\ \A i \in 1..Len(call.ret) :
            LET e == call.ret[i]
            IN /\ e.id \in DOMAIN collection
               /\ e.document = collection[e.id].document
               /\ e.metadata = collection[e.id].metadata
               /\ e.distance = Some(Distance(call.args.query, e.document))

C7_Witness ==
    /\ call.op = "search"
    /\ call.outcome = "return"
    /\ Len(call.ret) = 3
    /\ call.ret[1].distance[1] < call.ret[2].distance[1]
    /\ call.ret[2].metadata # call.ret[3].metadata

MatchingIds(coll, where) == {id \in DOMAIN coll : Matches(coll[id].metadata, where)}

\* C8: with the engine available similarity_search returns, and it returns
\* min(n_results, number of matching documents) entries: never more than
\* n_results, fewer when fewer match, none on an empty collection, exactly 2
\* of 3 documents for n_results = 2.
C8_SearchCount ==
    (call.op = "search" /\ ~call.args.fails) =>
       /\ call.outcome = "return"
       /\ Len(call.ret) =
            Min(call.args.n_results,
                Cardinality(MatchingIds(call.before, call.args.metadata_filter)))
       /\ collection = call.before

C8_Witness ==
    /\ call.op = "search"
    /\ Cardinality(DOMAIN call.before) = 3
    /\ call.args.n_results = 2
    /\ call.args.metadata_filter = None
    /\ call.outcome = "return"
    /\ Len(call.ret) = 2

\* C9: a delete (engine available) returns even when some of its ids are not
\* in the collection; exactly the listed ids are gone, every other document
\* is as before, and the same delete again changes nothing.
C9_DeleteIgnoresMissing ==
    (call.op = "delete" /\ ~call.args.fails) =>
       /\ call.outcome = "return"
       /\ DOMAIN collection = DOMAIN call.before \ Range(call.args.ids)
       /\ \A id \in DOMAIN collection : collection[id] = call.before[id]
       /\ LET again == delete_documents(collection, call.args.ids, FALSE)
          IN again.outcome = "return" /\ again.coll = collection

C9_Witness ==
    /\ call.op = "delete"
    /\ call.outcome = "return"
    /\ \E id \in Range(call.args.ids) : id \in DOMAIN call.before
    /\ \E id \in Range(call.args.ids) : id \notin DOMAIN call.before
    /\ DOMAIN collection # {}

\* The engine rejects the insert: its storage fails, or the record set is
\* invalid (empty, a repeated id, unequal lengths).
InsertRejected(args) ==
    \/ args.fails
    \/ Len(args.documents) = 0
    \/ LengthMismatch(args)
    \/ args.ids # None /\ ~NoDuplicates(args.ids[1])

\* C10: when the engine rejects the insert of an add, the add raises, it has
\* called the engine exactly once, and the collection is as it was.
C10_RejectedInsertPropagates ==
    (call.op = "add" /\ InsertRejected(call.args)) =>
       /\ call.outcome = "raise"
       /\ call.ret = None
       /\ call.engineCalls = 1
       /\ collection = call.before

C10_Witness ==
    /\ call.op = "add"
    /\ call.args.fails
    /\ call.args.ids # None
    /\ Len(call.args.ids[1]) = 2
    /\ NoDuplicates(call.args.ids[1])
    /\ ~LengthMismatch(call.args)
    /\ \E i \in 1..2 : call.args.ids[1][i] \notin DOMAIN call.before
    /\ call.outcome = "raise"
    /\ call.error = "EngineError"
====
